---- MODULE Spec2Model ----
(***************************************************************************)
(* Model of the project-bootstrap CLI (bin/cli.js and the modules it       *)
(* drives).  The main control flow is one async function; every execSync   *)
(* is a blocking step, every awaited prompt or fs promise is a suspension  *)
(* point.  createGitHubRepo is an async function that its two callers      *)
(* invoke WITHOUT await: its body up to the first await runs inside the    *)
(* caller's step, and the rest (the rename prompt and the retries) runs    *)
(* as a detached continuation whenever the main flow is suspended.         *)
(***************************************************************************)
EXTENDS Integers, Sequences, FiniteSets, TLC

\* ---------------------------------------------------------------- bounds
\* how many times the user answers the rename prompt of one creation loop
MaxRetries == 1

\* ------------------------------------------------------------ input sets
PackageManagers == {"npm", "pnpm", "yarn", "bun"}
\* the managers a run is started with: the one that cannot be auto-installed
\* and one that can (yarn and bun take the same branches as pnpm)
ChosenManagers == {"npm", "pnpm"}
HostingChoices == {"Netlify", "Cloudflare Pages", "Deploy manually"}
PackageNames == {"demo"}
RepoNames == {"demo", "demo-retry"}
Logins == {"alice"}
Destinations == {".", "proj"}
Authors == {"Jane"}

\* the command registry of utils/pkg.js
packageManagerCommands ==
  [npm  |-> [install |-> "npm install", run |-> "npm run", build |-> "npm run build",
             dev |-> "npm run dev", list |-> "npm list", add |-> "npm install",
             globalAdd |-> "npm install -g", globalList |-> "npm list -g",
             remove |-> "npm uninstall"],
   pnpm |-> [install |-> "pnpm install", run |-> "pnpm run", build |-> "pnpm run build",
             dev |-> "pnpm run dev", list |-> "pnpm list", add |-> "pnpm add",
             globalAdd |-> "pnpm add -g", globalList |-> "pnpm list -g",
             remove |-> "pnpm remove"],
   yarn |-> [install |-> "yarn", run |-> "yarn", build |-> "yarn build",
             dev |-> "yarn dev", list |-> "yarn list", add |-> "yarn add",
             globalAdd |-> "yarn global add", globalList |-> "yarn global list",
             remove |-> "yarn remove"],
   bun  |-> [install |-> "bun install", run |-> "bun run", build |-> "bun build",
             dev |-> "bun run dev", list |-> "bun list", add |-> "bun add",
             globalAdd |-> "bun add --global", globalList |-> "bun list --global",
             remove |-> "bun remove"]]

\* ----------------------------------------------------------------- state
VARIABLES
  pc,                  \* position of the main control flow
  outcome,             \* "running" | "completed" | "aborted" | "failed"
  failedAt,            \* the step whose exception reached main's catch
  exitStatus,          \* "none" | "0" | "1": process.exit code, if called
  packageName, destination, selectedPackageManager, publishProject,
  destExists,          \* the destination directory exists
  destEntries,         \* basenames directly under the destination
  origin,              \* the remote named origin as seen from the destination
  staged, committed,   \* git add / git commit took effect
  username,            \* result of getGitHubUsername
  ghReported,          \* what isCommandAvailable("gh") answered
  loops,               \* the two createGitHubRepo invocations
  created,             \* repositories created on the host during the run
  isGitHubConnected,   \* value returned by ensureConnectedToGitHub ("true" | "false")
  confirmContinue,     \* answer to the prompt after the second failed push
  manifest,            \* parsed content of the destination package.json
  consts,              \* lines of the destination src/consts.ts
  constWrites,         \* writes of src/consts.ts by a deployment driver
  ran,                 \* how often each external command was invoked
  installCwd,          \* cwd option of the orchestrator's install command
  persRun,             \* one application of the manifest rewrite to given inputs
  copyRun,             \* one copyRecursive(src, dest) call, run twice
  delRun,              \* one deleteDirectoryRecursive(path) call
  cmdRun,              \* the registry lookups made for one package manager
  chainLog,            \* the commands of the manual deploy chain, as they were run
  pushLog              \* whether each git push of pushToGitHub exited zero

vars == <<pc, outcome, failedAt, exitStatus, packageName, destination,
          selectedPackageManager, publishProject, destExists, destEntries,
          origin, staged, committed, username, ghReported, loops, created,
          isGitHubConnected, confirmContinue, manifest, consts, constWrites, ran,
          installCwd, persRun, copyRun, delRun, cmdRun, chainLog, pushLog>>

\* variables of the orchestrator's inputs
inputVars == <<packageName, destination, selectedPackageManager, publishProject>>
\* variables of the destination's version-control state
vcsVars == <<origin, staged, committed, username, ghReported>>
\* variables of the destination's files
fileVars == <<destExists, destEntries, manifest, consts, constWrites>>
\* the separately exercised functions (idle during a run of the orchestrator)
unitVars == <<persRun, copyRun, delRun, cmdRun>>
\* variables of the linkage algorithm's results
linkVars == <<isGitHubConnected, confirmContinue>>

Commands == {"pmInstall", "gitInit", "stage", "commit", "remoteAdd", "push",
             "setup", "driverInstall", "driverBuild", "driverDeploy",
             "install", "add", "dev"}

NoOrigin == [host |-> "none", user |-> "none", repo |-> "none"]
Origins == {NoOrigin} \cup [host : {"github.com", "example.org"},
                            user : Logins \cup {"null"}, repo : RepoNames]

IdleLoop == [state |-> "idle", name |-> "none", calls |-> 0, answers |-> 0]
NoManifest == [k \in {} |-> ""]

\* local repository metadata of the destination (the .git entry)
destRepo == destExists /\ ".git" \in destEntries

\* states of the destination before the run
InitialDest ==
  { [exists |-> FALSE, entries |-> {}, origin |-> NoOrigin],
    [exists |-> TRUE,  entries |-> {".git"}, origin |-> NoOrigin],
    [exists |-> TRUE,  entries |-> {".git"},
     origin |-> [host |-> "github.com", user |-> "alice", repo |-> "demo"]],
    [exists |-> TRUE,  entries |-> {".git", "index.html"},
     origin |-> [host |-> "example.org", user |-> "alice", repo |-> "demo"]],
    [exists |-> TRUE,  entries |-> {"package-lock.json", "node_modules", "index.html"},
     origin |-> NoOrigin] }

\* the orchestrator before its first prompt
MainIdle ==
  /\ pc = "prompt"
  /\ outcome = "running"
  /\ failedAt = "none"
  /\ exitStatus = "none"
  /\ packageName = "unset" /\ destination = "unset"
  /\ selectedPackageManager = "pnpm"
  /\ publishProject = "unset"
  /\ \E d \in InitialDest :
       /\ destExists = d.exists
       /\ destEntries = d.entries
       /\ origin = d.origin
  /\ staged = FALSE /\ committed = FALSE
  /\ username = "unset"
  /\ ghReported = "unchecked"
  /\ loops = [t \in {"ec", "pf"} |-> IdleLoop]
  /\ created = {}
  /\ isGitHubConnected = "unset"
  /\ confirmContinue = "unasked"
  /\ manifest = NoManifest
  /\ consts = <<>>
  /\ constWrites = 0
  /\ ran = [c \in Commands |-> 0]
  /\ installCwd = "unset"
  /\ chainLog = <<>>
  /\ pushLog = <<>>

Idle == [step |-> "idle"]

Init ==
  /\ MainIdle
  /\ persRun = Idle /\ copyRun = Idle /\ delRun = Idle /\ cmdRun = Idle

\* ------------------------------------------------------------- helpers
Alive == exitStatus = "none"
At(p) == Alive /\ pc = p

Run(c) == [ran EXCEPT ![c] = @ + 1]

\* an exception that propagates to the try/catch of main (cli.js:217-219)
\* variant: the catch block resumes the sequence at the run-locally prompt
Throw_resume ==
  /\ pc' = "runPrompt"
  /\ outcome' = "failed"
  /\ failedAt' = pc
  /\ exitStatus' = exitStatus

\* an exception reaches the catch block of main, which logs it; main returns
Throw ==
  /\ pc' = "end"
  /\ outcome' = "failed"
  /\ failedAt' = pc
  /\ exitStatus' = exitStatus

Goto(p) ==
  /\ pc' = p
  /\ UNCHANGED <<outcome, failedAt, exitStatus>>

\* process.exit(code)
Exit(code) ==
  /\ exitStatus' = code
  /\ UNCHANGED <<pc, outcome, failedAt>>

\* main is suspended on a prompt or an fs promise (or has returned): the only
\* moments at which a detached continuation of createGitHubRepo can run
SuspendPcs == {"overwritePrompt", "ec_ghPrompt", "ec_authPrompt", "pf_confirm",
               "n_constRead", "n_constWrite", "extrasPrompt", "runPrompt", "end"}
Suspended == pc \in SuspendPcs

\* --------------------------------------------------- utils/fileUtils.js
dirExclusions == {"node_modules", "bin", ".git", ".astro"}
fileExclusions == {".DS_Store", ".git"}

\* top level of templates/starter: directories and files
TemplateDirs == {"src", "functions", "node_modules", ".astro"}
TemplateFiles == {"package.json", ".gitignore_include", ".DS_Store"}

\* basenames that copyRecursive creates under dest, given the entries whose
\* copy raised an error (caught and logged inside that entry's call)
CopiedEntries(failing) ==
  {e \in TemplateDirs : e \notin dirExclusions /\ e \notin failing}
    \cup {e \in TemplateFiles : e \notin fileExclusions /\ e \notin failing}

\* ------------------------------------------------------ manifest rewrite
TemplateManifest ==
  [name |-> "tpl", version |-> "1.2.3", bin |-> "b", files |-> "f", main |-> "x",
   repository |-> "r", homepage |-> "h", bugs |-> "g", scripts |-> "s"]

Put(m, k, v) == [x \in (DOMAIN m) \cup {k} |-> IF x = k THEN v ELSE m[x]]
Del(m, ks) == [x \in (DOMAIN m) \ ks |-> m[x]]

DeletedKeys == {"bin", "files", "main", "repository", "homepage", "bugs"}

\* variant: the name is assigned even when the requested name is empty
Personalize_alwaysNamed(m, newName, author) ==
  Del(Put(Put(Put(m, "name", newName), "version", "0.0.1"), "author", author), DeletedKeys)

\* the rewrite of the parsed package.json
Personalize(m, newName, author) ==
  LET named == IF newName # "" THEN Put(m, "name", newName) ELSE m
  IN  Del(Put(Put(named, "version", "0.0.1"), "author", author), DeletedKeys)

\* -------------------------------------------------- src/consts.ts patch
HostingLine(v) == [kind |-> "hosting", val |-> v]
OtherLine(v) == [kind |-> "other", val |-> v]

TemplateConsts ==
  { <<OtherLine("a"), HostingLine("none"), OtherLine("b")>>,
    <<OtherLine("a"), OtherLine("b")>> }

\* String.prototype.replace with a non-global regular expression: the first
\* match of the HOSTING_SERVICE assignment is replaced, nothing else
FirstHosting(content) ==
  LET idx == {i \in 1..Len(content) : content[i].kind = "hosting"}
  IN  IF idx = {} THEN 0 ELSE CHOOSE i \in idx : \A j \in idx : i <= j

PatchHosting(content, target) ==
  LET i == FirstHosting(content)
  IN  IF i = 0 THEN content ELSE [content EXCEPT ![i] = HostingLine(target)]

\* ------------------------------------------------------------ bin/cli.js
\* the four questions asked at start-up
Main_Prompt ==
  /\ At("prompt")
  /\ packageName' \in PackageNames
  /\ destination' \in Destinations
  /\ selectedPackageManager' \in ChosenManagers
  /\ publishProject' \in HostingChoices
  /\ Goto("ensurePM")
  /\ UNCHANGED <<unitVars, pushLog, chainLog, installCwd, vcsVars, fileVars, linkVars, loops, created, ran>>

\* ensurePackageManagerInstalled: the npm branch calls error(), which no
\* binding of utils/pkg.js defines, so it raises a ReferenceError
Main_EnsurePM ==
  /\ At("ensurePM")
  /\ \/ /\ Goto("destCheck")
        /\ ran' = ran
     \/ /\ selectedPackageManager = "npm"
        /\ Throw
        /\ ran' = ran
     \/ /\ selectedPackageManager # "npm"
        /\ ran' = Run("pmInstall")
        /\ Goto("destCheck")
  /\ UNCHANGED <<unitVars, pushLog, chainLog, installCwd, inputVars, vcsVars, fileVars, linkVars, loops, created>>

\* variant: the .git entry is not filtered out of the listing
Main_DestCheck_noGitFilter ==
  /\ At("destCheck")
  /\ \/ /\ ~destExists
        /\ \/ /\ destExists' = TRUE
              /\ Goto("copy")
           \/ /\ destExists' = destExists
              /\ Throw
     \/ /\ destExists
        /\ destEntries # {}
        /\ destExists' = destExists
        /\ Goto("overwritePrompt")
     \/ /\ destExists
        /\ destEntries = {}
        /\ destExists' = destExists
        /\ Goto("copy")
  /\ UNCHANGED <<unitVars, pushLog, chainLog, installCwd, inputVars, vcsVars, destEntries, manifest, consts, constWrites,
                 linkVars, loops, created, ran>>

\* the destination is created when absent; the overwrite prompt follows
\* when it holds an entry other than .git
Main_DestCheck ==
  /\ At("destCheck")
  /\ \/ /\ ~destExists
        /\ \/ /\ destExists' = TRUE
              /\ Goto("copy")
           \/ /\ destExists' = destExists
              /\ Throw
     \/ /\ destExists
        /\ destEntries \ {".git"} # {}
        /\ destExists' = destExists
        /\ Goto("overwritePrompt")
     \/ /\ destExists
        /\ destEntries \ {".git"} = {}
        /\ destExists' = destExists
        /\ Goto("copy")
  /\ UNCHANGED <<unitVars, pushLog, chainLog, installCwd, inputVars, vcsVars, destEntries, manifest, consts, constWrites,
                 linkVars, loops, created, ran>>

LockFiles == {"package-lock.json", "yarn.lock", "pnpm-lock.yaml"}

\* variant: declining the overwrite calls process.exit(1)
Main_OverwritePrompt_exit ==
  /\ At("overwritePrompt")
  /\ \/ /\ Exit("1")
        /\ destEntries' = destEntries
     \/ /\ destEntries' = destEntries \ (LockFiles \cup {"node_modules"})
        /\ Goto("copy")
     \/ /\ destEntries' = destEntries
        /\ Throw
  /\ UNCHANGED <<unitVars, pushLog, chainLog, installCwd, inputVars, vcsVars, destExists, manifest, consts, constWrites,
                 linkVars, loops, created, ran>>

\* the overwrite prompt: declining returns from main
Main_OverwritePrompt ==
  /\ At("overwritePrompt")
  /\ \/ /\ pc' = "end"
        /\ outcome' = "aborted"
        /\ UNCHANGED <<failedAt, exitStatus, destEntries>>
     \/ /\ destEntries' = destEntries \ (LockFiles \cup {"node_modules"})
        /\ Goto("copy")
     \/ /\ destEntries' = destEntries
        /\ Throw
  /\ UNCHANGED <<unitVars, pushLog, chainLog, installCwd, inputVars, vcsVars, destExists, manifest, consts, constWrites,
                 linkVars, loops, created, ran>>

Main_Copy ==
  /\ At("copy")
  /\ \E failing \in SUBSET {"package.json"} :
       destEntries' = destEntries \cup CopiedEntries(failing)
  /\ consts' \in TemplateConsts
  /\ Goto("gitignore")
  /\ UNCHANGED <<unitVars, pushLog, chainLog, installCwd, inputVars, vcsVars, destExists, manifest, constWrites,
                 linkVars, loops, created, ran>>

Main_Gitignore ==
  /\ At("gitignore")
  /\ \/ /\ ".gitignore_include" \in destEntries
        /\ \/ /\ destEntries' = (destEntries \ {".gitignore_include"}) \cup {".gitignore"}
              /\ Goto("manifest")
           \/ /\ destEntries' = destEntries
              /\ Throw
     \/ /\ ".gitignore_include" \notin destEntries
        /\ destEntries' = destEntries
        /\ Goto("manifest")
  /\ UNCHANGED <<unitVars, pushLog, chainLog, installCwd, inputVars, vcsVars, destExists, manifest, consts, constWrites,
                 linkVars, loops, created, ran>>

Main_Manifest ==
  /\ At("manifest")
  /\ \/ /\ "package.json" \notin destEntries
        /\ manifest' = manifest
        /\ Throw
     \/ /\ "package.json" \in destEntries
        /\ \/ /\ manifest' = manifest
              /\ Throw
           \/ /\ \E author \in Authors :
                   manifest' = Personalize(TemplateManifest, packageName, author)
              /\ Goto("dispatch")
  /\ UNCHANGED <<unitVars, pushLog, chainLog, installCwd, inputVars, vcsVars, destExists, destEntries, consts, constWrites,
                 linkVars, loops, created, ran>>

Main_Dispatch ==
  /\ At("dispatch")
  /\ \/ publishProject = "Cloudflare Pages" /\ Goto("c_cli")
     \/ publishProject = "Netlify" /\ Goto("n_toml")
     \/ publishProject = "Deploy manually" /\ Goto("install")
  /\ UNCHANGED <<unitVars, pushLog, chainLog, installCwd, inputVars, vcsVars, fileVars, linkVars, loops, created, ran>>

\* variant: the install command is run without the cwd option
Main_Install_noCwd ==
  /\ At("install")
  /\ ran' = Run("install")
  /\ installCwd' = "."
  /\ \/ /\ destEntries' = destEntries \cup {"node_modules"}
        /\ Goto("extrasPrompt")
     \/ /\ destEntries' = destEntries
        /\ Throw
  /\ UNCHANGED <<unitVars, pushLog, chainLog, inputVars, vcsVars, destExists, manifest, consts, constWrites,
                 linkVars, loops, created>>

Main_Install ==
  /\ At("install")
  /\ ran' = Run("install")
  /\ installCwd' = destination
  /\ \/ /\ destEntries' = destEntries \cup {"node_modules"}
        /\ Goto("extrasPrompt")
     \/ /\ destEntries' = destEntries
        /\ Throw
  /\ UNCHANGED <<unitVars, pushLog, chainLog, inputVars, vcsVars, destExists, manifest, consts, constWrites,
                 linkVars, loops, created>>

Main_Extras ==
  /\ At("extrasPrompt")
  /\ \/ /\ ran' = ran
        /\ Goto("runPrompt")
     \/ /\ ran' = Run("add")
        /\ \/ Goto("runPrompt")
           \/ Throw
  /\ UNCHANGED <<unitVars, pushLog, chainLog, installCwd, inputVars, vcsVars, fileVars, linkVars, loops, created>>

Main_RunPrompt ==
  /\ At("runPrompt")
  /\ \/ /\ ran' = Run("dev")
        /\ \/ /\ pc' = "end" /\ outcome' = "completed"
              /\ UNCHANGED <<failedAt, exitStatus>>
           \/ Throw
     \/ /\ ran' = ran
        /\ pc' = "end" /\ outcome' = "completed"
        /\ UNCHANGED <<failedAt, exitStatus>>
  /\ UNCHANGED <<unitVars, pushLog, chainLog, installCwd, inputVars, vcsVars, fileVars, linkVars, loops, created>>

\* ------------------------------------------------- vcs/github.js, loops
\* one iteration of the while loop of createGitHubRepo: gh repo create runs;
\* on success the loop ends, on failure the rename prompt is opened
\* variant: success is never recorded, the loop prompts after every attempt
CreateAttempt_noExit(loop, name, ok) ==
  [state   |-> "prompt",
   name    |-> name,
   calls   |-> loop.calls + 1,
   answers |-> loop.answers]

\* one pass of the while loop of createGitHubRepo: gh repo create succeeds
\* (the loop ends) or fails (the rename prompt is shown)
CreateAttempt(loop, name, ok) ==
  [state   |-> IF ok THEN "done" ELSE "prompt",
   name    |-> name,
   calls   |-> loop.calls + 1,
   answers |-> loop.answers]

\* the call createGitHubRepo(packageName) as the caller sees it: the body runs
\* up to its first await, then the caller goes on (there is no await at the
\* call site)
CreateCall(t) ==
  \E ok \in BOOLEAN :
    /\ ok => packageName \notin created
    /\ loops' = [loops EXCEPT ![t] = CreateAttempt(loops[t], packageName, ok)]
    /\ created' = IF ok THEN created \cup {packageName} ELSE created

\* the rename prompt of a pending createGitHubRepo is answered: packageName
\* (the loop's local parameter) is reassigned and the loop body runs again
Loop_Answer(t) ==
  /\ Alive
  /\ Suspended
  /\ loops[t].state = "prompt"
  /\ loops[t].answers < MaxRetries
  /\ \E newRepoName \in RepoNames, ok \in BOOLEAN :
       /\ ok => newRepoName \notin created
       /\ loops' = [loops EXCEPT ![t] =
                      CreateAttempt([loops[t] EXCEPT !.answers = @ + 1], newRepoName, ok)]
       /\ created' = IF ok THEN created \cup {newRepoName} ELSE created
  /\ UNCHANGED <<pc, outcome, failedAt, exitStatus, inputVars, vcsVars, fileVars,
                 linkVars, ran, unitVars, installCwd, chainLog, pushLog>>

\* ------------------------------------- vcs/github.js, ensureConnectedToGitHub
\* isGitRepo() runs git status in the process's working directory
EC_Init ==
  /\ At("ec_init")
  /\ \E isGitRepo \in BOOLEAN :
       /\ destination = "." => isGitRepo = destRepo
       /\ \/ /\ isGitRepo
             /\ Goto("ec_check")
             /\ UNCHANGED <<destEntries, ran>>
          \/ /\ ~isGitRepo
             /\ ran' = Run("gitInit")
             /\ \/ /\ destEntries' = destEntries \cup {".git"}
                   /\ Goto("ec_check")
                \/ /\ destEntries' = destEntries
                   /\ Throw
  /\ UNCHANGED <<unitVars, pushLog, chainLog, installCwd, inputVars, vcsVars, destExists, manifest, consts, constWrites,
                 linkVars, loops, created>>

isRepoConnectedToGitHub == origin.host = "github.com"

\* variant: the repository is created before the CLI is probed
EC_Check_createFirst ==
  /\ At("ec_check")
  /\ \/ /\ isRepoConnectedToGitHub
        /\ Goto("ec_stage")
        /\ UNCHANGED <<ghReported, loops, created>>
     \/ /\ ~isRepoConnectedToGitHub
        /\ \/ /\ ghReported' = "false"
              /\ CreateCall("ec")
              /\ Goto("ec_ghPrompt")
           \/ /\ ghReported' = "true"
              /\ CreateCall("ec")
              /\ Goto("ec_stage")
  /\ UNCHANGED <<unitVars, pushLog, chainLog, installCwd, inputVars, origin, staged, committed, username, fileVars,
                 linkVars, ran>>

\* the probe of the remote link and of the hosting CLI, and the first
\* creation call
EC_Check ==
  /\ At("ec_check")
  /\ \/ /\ isRepoConnectedToGitHub
        /\ Goto("ec_stage")
        /\ UNCHANGED <<ghReported, loops, created>>
     \/ /\ ~isRepoConnectedToGitHub
        /\ \/ /\ ghReported' = "false"
              /\ Goto("ec_ghPrompt")
              /\ UNCHANGED <<loops, created>>
           \/ /\ ghReported' = "true"
              /\ CreateCall("ec")
              /\ Goto("ec_stage")
  /\ UNCHANGED <<unitVars, pushLog, chainLog, installCwd, inputVars, origin, staged, committed, username, fileVars,
                 linkVars, ran>>

\* variant: the "continue" branch lacks its return and falls through
EC_GhPrompt_fallthrough ==
  /\ At("ec_ghPrompt")
  /\ \/ /\ Exit("0")
        /\ UNCHANGED isGitHubConnected
     \/ /\ UNCHANGED isGitHubConnected
        /\ Goto("ec_stage")
  /\ UNCHANGED <<unitVars, pushLog, chainLog, installCwd, inputVars, vcsVars, fileVars, confirmContinue, loops, created, ran>>

EC_GhPrompt ==
  /\ At("ec_ghPrompt")
  /\ \/ /\ Exit("0")
        /\ UNCHANGED isGitHubConnected
     \/ /\ isGitHubConnected' = "false"
        /\ Goto("n_branch")
  /\ UNCHANGED <<unitVars, pushLog, chainLog, installCwd, inputVars, vcsVars, fileVars, confirmContinue, loops, created, ran>>

EC_Stage ==
  /\ At("ec_stage")
  /\ ran' = Run("stage")
  /\ \/ staged' = TRUE /\ Goto("ec_commit")
     \/ staged' = staged /\ Throw
  /\ UNCHANGED <<unitVars, pushLog, chainLog, installCwd, inputVars, origin, committed, username, ghReported, fileVars,
                 linkVars, loops, created>>

EC_Commit ==
  /\ At("ec_commit")
  /\ ran' = Run("commit")
  /\ \/ committed' = TRUE /\ Goto("ec_username")
     \/ committed' = committed /\ Throw
  /\ UNCHANGED <<unitVars, pushLog, chainLog, installCwd, inputVars, origin, staged, username, ghReported, fileVars,
                 linkVars, loops, created>>

\* getGitHubUsername up to its prompt
EC_Username ==
  /\ At("ec_username")
  /\ \/ /\ username' \in Logins
        /\ Goto("ec_remote")
     \/ /\ username' = username
        /\ Goto("ec_authPrompt")
  /\ UNCHANGED <<unitVars, pushLog, chainLog, installCwd, inputVars, origin, staged, committed, ghReported, fileVars,
                 linkVars, loops, created, ran>>

\* getGitHubUsername after its prompt: authenticate (and query again) or continue
EC_AuthPrompt ==
  /\ At("ec_authPrompt")
  /\ username' \in Logins \cup {"null"}
  /\ Goto("ec_remote")
  /\ UNCHANGED <<unitVars, pushLog, chainLog, installCwd, inputVars, origin, staged, committed, ghReported, fileVars,
                 linkVars, loops, created, ran>>

\* the URL of the remote that ensureConnectedToGitHub adds
RemoteUrl == [host |-> "github.com", user |-> username, repo |-> packageName]

EC_Remote ==
  /\ At("ec_remote")
  /\ \/ /\ origin # NoOrigin
        /\ Goto("ec_push")
        /\ UNCHANGED <<origin, ran>>
     \/ /\ origin = NoOrigin
        /\ ran' = Run("remoteAdd")
        /\ \/ origin' = RemoteUrl /\ Goto("ec_push")
           \/ origin' = origin /\ Throw
  /\ UNCHANGED <<unitVars, pushLog, chainLog, installCwd, inputVars, staged, committed, username, ghReported, fileVars,
                 linkVars, loops, created>>

\* ------------------------------------------------ vcs/github.js, pushToGitHub
EC_Push ==
  /\ At("ec_push")
  /\ ran' = Run("push")
  /\ \/ /\ pushLog' = Append(pushLog, TRUE)
        /\ isGitHubConnected' = "true"
        /\ Goto("n_branch")
     \/ /\ pushLog' = Append(pushLog, FALSE)
        /\ isGitHubConnected' = isGitHubConnected
        /\ Goto("pf_create")
  /\ UNCHANGED <<unitVars, chainLog, installCwd, inputVars, vcsVars, fileVars, confirmContinue, loops, created>>

\* variant: the fallback removes the origin remote before creating anew
PF_Create_resetRemote ==
  /\ At("pf_create")
  /\ CreateCall("pf")
  /\ Goto("pf_push")
  /\ origin' = NoOrigin
  /\ UNCHANGED <<unitVars, pushLog, chainLog, installCwd, inputVars, staged, committed, username, ghReported,
                 fileVars, linkVars, ran>>

\* the fallback after the failed first push: createGitHubRepo is called
PF_Create ==
  /\ At("pf_create")
  /\ CreateCall("pf")
  /\ Goto("pf_push")
  /\ UNCHANGED <<unitVars, pushLog, chainLog, installCwd, inputVars, vcsVars, fileVars, linkVars, ran>>

\* variant: the retried push is not inside the try, its failure is ignored
PF_Push_unchecked ==
  /\ At("pf_push")
  /\ ran' = Run("push")
  /\ \E ok \in BOOLEAN : pushLog' = Append(pushLog, ok)
  /\ isGitHubConnected' = "true"
  /\ Goto("n_branch")
  /\ UNCHANGED <<unitVars, chainLog, installCwd, inputVars, vcsVars, fileVars, confirmContinue, loops, created>>

\* the retried push: success returns true, failure leads to the prompt
PF_Push ==
  /\ At("pf_push")
  /\ ran' = Run("push")
  /\ \/ /\ pushLog' = Append(pushLog, TRUE)
        /\ isGitHubConnected' = "true"
        /\ Goto("n_branch")
     \/ /\ pushLog' = Append(pushLog, FALSE)
        /\ isGitHubConnected' = isGitHubConnected
        /\ Goto("pf_confirm")
  /\ UNCHANGED <<unitVars, chainLog, installCwd, inputVars, vcsVars, fileVars, confirmContinue, loops, created>>

\* variant: declining exits with status 0, as the missing-CLI branch does
PF_Confirm_exit0 ==
  /\ At("pf_confirm")
  /\ \/ /\ confirmContinue' = "false"
        /\ Exit("0")
        /\ UNCHANGED isGitHubConnected
     \/ /\ confirmContinue' = "true"
        /\ isGitHubConnected' = "false"
        /\ Goto("n_branch")
  /\ UNCHANGED <<unitVars, pushLog, chainLog, installCwd, inputVars, vcsVars, fileVars, loops, created, ran>>

PF_Confirm ==
  /\ At("pf_confirm")
  /\ \/ /\ confirmContinue' = "false"
        /\ Exit("1")
        /\ UNCHANGED isGitHubConnected
     \/ /\ confirmContinue' = "true"
        /\ isGitHubConnected' = "false"
        /\ Goto("n_branch")
  /\ UNCHANGED <<unitVars, pushLog, chainLog, installCwd, inputVars, vcsVars, fileVars, loops, created, ran>>

\* ------------------------------------------- deployment/netlify.js driver
N_Toml ==
  /\ At("n_toml")
  /\ \/ /\ destEntries' = destEntries \cup {"netlify.toml"}
        /\ Goto("n_functions")
     \/ /\ destEntries' = destEntries
        /\ Throw
  /\ UNCHANGED <<unitVars, pushLog, chainLog, installCwd, inputVars, vcsVars, destExists, manifest, consts, constWrites,
                 linkVars, loops, created, ran>>

\* deleteDirectoryRecursive(functions) inside try/catch
N_Functions ==
  /\ At("n_functions")
  /\ \/ destEntries' = destEntries \ {"functions"}
     \/ destEntries' = destEntries
  /\ Goto("n_cli")
  /\ UNCHANGED <<unitVars, pushLog, chainLog, installCwd, inputVars, vcsVars, destExists, manifest, consts, constWrites,
                 linkVars, loops, created, ran>>

\* the CLI is present, or its global install succeeds; a failing global install
\* is not caught
ensureNetlifyCLI ==
  /\ At("n_cli")
  /\ \/ Goto("ec_init")
     \/ Throw
  /\ UNCHANGED <<unitVars, pushLog, chainLog, installCwd, inputVars, vcsVars, fileVars, linkVars, loops, created, ran>>

\* variant: the branch condition is inverted
N_Setup_inverted ==
  /\ At("n_branch")
  /\ isGitHubConnected = "false"
  /\ ran' = Run("setup")
  /\ Goto("n_constRead")
  /\ UNCHANGED <<unitVars, pushLog, chainLog, installCwd, inputVars, vcsVars, fileVars, linkVars, loops, created>>

\* linked: netlify init inside try/catch
N_Setup ==
  /\ At("n_branch")
  /\ isGitHubConnected = "true"
  /\ ran' = Run("setup")
  /\ Goto("n_constRead")
  /\ UNCHANGED <<unitVars, pushLog, chainLog, installCwd, inputVars, vcsVars, fileVars, linkVars, loops, created>>

\* not linked: install, build, netlify deploy --prod inside one try/catch
\* one execSync of the chain, with its cwd option and whether it exited zero
ChainRun(cmd, ok) == Append(chainLog, [cmd |-> cmd, cwd |-> destination, ok |-> ok])

\* variant: the driver probes the origin remote again instead of using
\* the result of ensureConnectedToGitHub
N_ManualInstall_probesRemote ==
  /\ At("n_branch")
  /\ isGitHubConnected = "false"
  /\ \/ /\ origin.host = "github.com"
        /\ ran' = Run("setup")
        /\ Goto("n_constRead")
        /\ UNCHANGED chainLog
     \/ /\ origin.host # "github.com"
        /\ ran' = Run("driverInstall")
        /\ \/ chainLog' = ChainRun("install", TRUE) /\ Goto("n_build")
           \/ chainLog' = ChainRun("install", FALSE) /\ Goto("n_constRead")
  /\ UNCHANGED <<unitVars, pushLog, installCwd, inputVars, vcsVars, fileVars, linkVars, loops, created>>

N_ManualInstall ==
  /\ At("n_branch")
  /\ isGitHubConnected = "false"
  /\ ran' = Run("driverInstall")
  /\ \/ chainLog' = ChainRun("install", TRUE) /\ Goto("n_build")
     \/ chainLog' = ChainRun("install", FALSE) /\ Goto("n_constRead")
  /\ UNCHANGED <<unitVars, pushLog, installCwd, inputVars, vcsVars, fileVars, linkVars, loops, created>>

\* variant: a failed build is ignored and the deploy command still runs
N_ManualBuild_continues ==
  /\ At("n_build")
  /\ ran' = Run("driverBuild")
  /\ \/ chainLog' = ChainRun("build", TRUE) /\ Goto("n_deploy")
     \/ chainLog' = ChainRun("build", FALSE) /\ Goto("n_deploy")
  /\ UNCHANGED <<unitVars, pushLog, installCwd, inputVars, vcsVars, fileVars, linkVars, loops, created>>

N_ManualBuild ==
  /\ At("n_build")
  /\ ran' = Run("driverBuild")
  /\ \/ chainLog' = ChainRun("build", TRUE) /\ Goto("n_deploy")
     \/ chainLog' = ChainRun("build", FALSE) /\ Goto("n_constRead")
  /\ UNCHANGED <<unitVars, pushLog, installCwd, inputVars, vcsVars, fileVars, linkVars, loops, created>>

N_ManualDeploy ==
  /\ At("n_deploy")
  /\ ran' = Run("driverDeploy")
  /\ \E ok \in BOOLEAN : chainLog' = ChainRun("deploy", ok)
  /\ Goto("n_constRead")
  /\ UNCHANGED <<unitVars, pushLog, installCwd, inputVars, vcsVars, fileVars, linkVars, loops, created>>

N_ConstRead ==
  /\ At("n_constRead")
  /\ \/ Goto("n_constWrite")
     \/ Throw
  /\ UNCHANGED <<unitVars, pushLog, chainLog, installCwd, inputVars, vcsVars, fileVars, linkVars, loops, created, ran>>

N_ConstWrite ==
  /\ At("n_constWrite")
  /\ \/ /\ consts' = PatchHosting(consts, "netlify")
        /\ constWrites' = constWrites + 1
        /\ Goto("install")
     \/ /\ UNCHANGED <<consts, constWrites>>
        /\ Throw
  /\ UNCHANGED <<unitVars, pushLog, chainLog, installCwd, inputVars, vcsVars, destExists, destEntries, manifest,
                 linkVars, loops, created, ran>>

\* ---------------------------------------- deployment/cloudflare.js driver
\* ensureWranglerCLI calls isCommandAvailable, which cloudflare.js does not
\* import: the call raises a ReferenceError before any command runs
ensureWranglerCLI ==
  /\ At("c_cli")
  /\ Throw
  /\ UNCHANGED <<unitVars, pushLog, chainLog, installCwd, inputVars, vcsVars, fileVars, linkVars, loops, created, ran>>

\* ------------------------------------------------------- specification
Next ==
  \/ Main_Prompt
  \/ Main_EnsurePM
  \/ Main_DestCheck
  \/ Main_OverwritePrompt
  \/ Main_Copy
  \/ Main_Gitignore
  \/ Main_Manifest
  \/ Main_Dispatch
  \/ ensureWranglerCLI
  \/ N_Toml
  \/ N_Functions
  \/ ensureNetlifyCLI
  \/ EC_Init
  \/ EC_Check
  \/ EC_GhPrompt
  \/ EC_Stage
  \/ EC_Commit
  \/ EC_Username
  \/ EC_AuthPrompt
  \/ EC_Remote
  \/ EC_Push
  \/ PF_Create
  \/ PF_Push
  \/ PF_Confirm
  \/ N_Setup
  \/ N_ManualInstall
  \/ N_ManualBuild
  \/ N_ManualDeploy
  \/ N_ConstRead
  \/ N_ConstWrite
  \/ Main_Install
  \/ Main_Extras
  \/ Main_RunPrompt
  \/ \E t \in {"ec", "pf"} : Loop_Answer(t)

Spec == Init /\ [][Next]_vars

TypeOK ==
  /\ outcome \in {"running", "completed", "aborted", "failed"}
  /\ exitStatus \in {"none", "0", "1"}
  /\ origin \in Origins
  /\ isGitHubConnected \in {"unset", "true", "false"}
  /\ \A t \in {"ec", "pf"} : loops[t].state \in {"idle", "prompt", "done"}

\* ------------------------------------------------------------ vocabulary
\* positions inside ensureConnectedToGitHub / pushToGitHub
ECPcs == {"ec_init", "ec_check", "ec_ghPrompt", "ec_stage", "ec_commit",
          "ec_username", "ec_authPrompt", "ec_remote", "ec_push",
          "pf_create", "pf_push", "pf_confirm"}
\* positions inside a deployment driver
DriverPcs == {"n_toml", "n_functions", "n_cli", "c_cli", "n_branch", "n_build",
              "n_deploy", "n_constRead", "n_constWrite"} \cup ECPcs
\* positions of the orchestrator before it dispatches to a driver
PreDriverPcs == {"prompt", "ensurePM", "destCheck", "overwritePrompt", "copy",
                 "gitignore", "manifest", "dispatch"}
\* positions of the orchestrator after the driver returned
PostDriverPcs == {"install", "extrasPrompt", "runPrompt"}

CreationCalls == loops["ec"].calls + loops["pf"].calls
ManualRan == ran["driverInstall"] + ran["driverBuild"] + ran["driverDeploy"]
HostingDriver == publishProject \in {"Netlify", "Cloudflare Pages"}
Target == IF publishProject = "Netlify" THEN "netlify" ELSE "cloudflare"

\* the driver was entered and is over, by return or by exception
DriverEnded ==
  /\ HostingDriver
  /\ \/ pc \in PostDriverPcs
     \/ pc = "end" /\ outcome = "completed"
     \/ pc = "end" /\ outcome = "failed" /\ failedAt \notin PreDriverPcs

\* ------------------------------------------------------------------ C1
\* C1: while the creation loop started by ensureConnected has not yet had a
\* successful creation call, none of the later steps (stage, commit, identity
\* resolution, remote-add, push) has started.
C1_NoStepBeforeCreationSucceeded ==
  loops["ec"].state = "prompt" =>
    /\ ran["stage"] = 0 /\ ran["commit"] = 0
    /\ username = "unset"
    /\ ran["remoteAdd"] = 0 /\ ran["push"] = 0

\* ------------------------------------------------------------------ C2
\* C2: once the creation loop of ensureConnected has succeeded and
\* ensureConnected has added the origin remote, the repository name in the
\* remote URL is the name of the successful creation call.
C2_RemoteUsesAcceptedName ==
  (loops["ec"].state = "done" /\ ran["remoteAdd"] > 0 /\ origin # NoOrigin)
    => origin.repo = loops["ec"].name

\* ------------------------------------------------------------------ C3
\* C3: no rename prompt of a creation loop is pending when the main flow is
\* about to run a stage, commit, push or deployment command, and the two
\* creation loops are never pending at the same time.
CommandPcs == {"ec_stage", "ec_commit", "ec_push", "pf_push", "n_branch",
               "n_build", "n_deploy"}

C3_StrictlySequential ==
  /\ (Alive /\ pc \in CommandPcs) => \A t \in {"ec", "pf"} : loops[t].state # "prompt"
  /\ ~(loops["ec"].state = "prompt" /\ loops["pf"].state = "prompt")

\* ------------------------------------------------------------------ C4
\* C4: at most two pushes per call; the second push comes after the fallback
\* creation call and happens exactly once; the continue prompt is asked only
\* after the second push failed; answering No exits with status 1, answering
\* Yes makes ensureConnected return "false" without an exception or exit.
C4_PushFallback ==
  /\ ran["push"] <= 2
  /\ ran["push"] = 2 => loops["pf"].calls >= 1
  /\ (loops["pf"].calls >= 1 /\ pc # "pf_push") => ran["push"] = 2
  /\ (pc = "pf_confirm" \/ confirmContinue # "unasked") => ran["push"] = 2
  /\ confirmContinue = "false" => exitStatus = "1" /\ isGitHubConnected = "unset"
  /\ confirmContinue = "true" =>
       /\ isGitHubConnected = "false"
       /\ exitStatus = "none"
       /\ failedAt \notin ECPcs

C4_Witness ==
  /\ confirmContinue = "true"
  /\ ran["push"] = 2
  /\ isGitHubConnected = "false"
  /\ pc = "n_branch"

\* ------------------------------------------------------------------ C5
\* C5 as stated: a creation call or a push is attempted only if the hosting
\* CLI was reported available; and with the CLI reported unavailable, a call
\* that returned has returned "false" without exception or exit.
C5_OnlyIfCliAvailable ==
  /\ (CreationCalls > 0 \/ ran["push"] > 0) => ghReported = "true"
  /\ (ghReported = "false" /\ isGitHubConnected # "unset") =>
       /\ isGitHubConnected = "false"
       /\ exitStatus = "none"
       /\ failedAt \notin ECPcs

\* the destination had no remote pointing at the host when ensureConnected
\* probed it (a remote is added only when none was configured)
NotLinkedAtEntry == origin.host # "github.com" \/ ran["remoteAdd"] > 0

\* C5 amended: the same, for a destination without a remote link at entry.
C5_OnlyIfCliAvailableWhenUnlinked ==
  /\ (NotLinkedAtEntry /\ (CreationCalls > 0 \/ ran["push"] > 0)) => ghReported = "true"
  /\ ghReported = "false" => (CreationCalls = 0 /\ ran["push"] = 0)
  /\ (ghReported = "false" /\ isGitHubConnected # "unset") =>
       /\ isGitHubConnected = "false"
       /\ exitStatus = "none"
       /\ failedAt \notin ECPcs

C5_Witness ==
  /\ ghReported = "false"
  /\ isGitHubConnected = "false"
  /\ pc = "n_branch"
  /\ exitStatus = "none"

\* ------------------------------------------------------------------ C6
\* C6: whenever a stage, commit, remote-add, creation or push step has
\* started, the destination has local repository metadata (the init
\* transition came first).
C6_InitBeforeAnyStep ==
  (ran["stage"] > 0 \/ ran["commit"] > 0 \/ ran["remoteAdd"] > 0
     \/ ran["push"] > 0 \/ CreationCalls > 0)
    => destRepo

\* ------------------------------------------------------------------ C7
\* C7: the continuous-setup command runs at most once and only on a linked
\* result, with no manual command of the driver; manual commands run only on a
\* not-linked result, never with the setup command; and once the driver is past
\* its branch the command of the selected branch has been invoked.
PastBranch == isGitHubConnected # "unset" /\ pc # "n_branch"

C7_BranchSelection ==
  /\ ran["setup"] <= 1
  /\ ran["setup"] = 1 => (isGitHubConnected = "true" /\ ManualRan = 0)
  /\ ManualRan > 0 =>
       (isGitHubConnected = "false" /\ ran["setup"] = 0 /\ ran["driverInstall"] = 1)
  /\ (PastBranch /\ isGitHubConnected = "true") => ran["setup"] = 1
  /\ (PastBranch /\ isGitHubConnected = "false") => ran["driverInstall"] = 1

C7_Witness ==
  /\ publishProject = "Netlify"
  /\ isGitHubConnected = "true"
  /\ ran["setup"] = 1
  /\ pc = "n_constRead"

\* ------------------------------------------------------------------ C8
\* C8: no exception raised inside a deployment driver reaches the
\* orchestrator: a run never ends in main's catch with a driver step as the
\* origin of the failure.
C8_NothingThrownPastDriver ==
  outcome = "failed" => failedAt \notin DriverPcs

\* ------------------------------------------------------------------ C9
\* C9: once a deployment driver is over, src/consts.ts has been written once
\* and is the template's file with its hosting line set to the chosen target.
C9_ConstantRecordsTarget ==
  DriverEnded =>
    /\ constWrites = 1
    /\ \E t \in TemplateConsts :
         /\ FirstHosting(t) # 0
         /\ consts = [t EXCEPT ![FirstHosting(t)] = HostingLine(Target)]

\* ------------------------------------------------------------------ C10
\* C10: when a deployment driver starts, the orchestrator's dependency
\* install has already been invoked; extra dependencies are installed only
\* after the driver is over.
C10_InstallBeforeDriver ==
  /\ (HostingDriver /\ pc \in DriverPcs) => ran["install"] >= 1
  /\ ran["add"] > 0 => pc \notin DriverPcs \cup PreDriverPcs

\* ------------------------------------------------------------------ C11
\* the orchestrator's install step is over (it returned or it threw)
InstallOver ==
  \/ pc \in {"extrasPrompt", "runPrompt"}
  \/ pc = "end" /\ outcome = "completed"
  \/ pc = "end" /\ outcome = "failed" /\ failedAt \in PostDriverPcs

VcsCommands == {"gitInit", "stage", "commit", "remoteAdd", "push"}
DeployCommands == {"setup", "driverInstall", "driverBuild", "driverDeploy"}

\* C11: with the manual hosting choice no VCS command, no repository creation
\* and no deployment command is ever run, and once the install step is over
\* the install command has been invoked exactly once, in the destination.
C11_ManualRunsInstallOnly ==
  publishProject = "Deploy manually" =>
    /\ \A c \in VcsCommands \cup DeployCommands : ran[c] = 0
    /\ CreationCalls = 0
    /\ pc \notin DriverPcs
    /\ ran["install"] <= 1
    /\ InstallOver => (ran["install"] = 1 /\ installCwd = destination)

C11_Witness ==
  /\ publishProject = "Deploy manually"
  /\ destination = "proj"
  /\ pc = "end" /\ outcome = "completed"
  /\ ran["install"] = 1

\* ------------------------------------------------------------------ C12
\* steps of the orchestrator up to and including the copy of the template
UpToCopyPcs == {"prompt", "ensurePM", "destCheck", "overwritePrompt", "copy"}

\* what the completed steps wrote is still there
CompletedStepsPersist ==
  /\ failedAt \notin UpToCopyPcs => "src" \in destEntries
  /\ failedAt \notin PreDriverPcs =>
       /\ "package.json" \in destEntries
       /\ manifest # NoManifest
       /\ manifest["version"] = "0.0.1"
       /\ manifest["name"] = packageName

ProcessExitCode == IF exitStatus = "none" THEN "0" ELSE exitStatus

\* the run ended without completing
Unrecoverable == exitStatus # "none" \/ (pc = "end" /\ outcome \in {"failed", "aborted"})

\* C13: a run that ends on an unrecoverable failure (caught exception,
\* declined overwrite, exit chosen when the hosting CLI is missing, declined
\* continuation after a failed push) ends with a non-zero exit status.
C13_NonZeroOnUnrecoverable == Unrecoverable => ProcessExitCode # "0"

\* ------------------------------------------------------------------ C14
\* C14 (as stated): the process is terminated below main only when the user
\* declines to continue after the failed push or declines the overwrite.
C14_TwoTerminations ==
  exitStatus # "none" => (confirmContinue = "false" \/ outcome = "aborted")

\* C14 (amended): process.exit is called in two places only, the declined
\* continuation after the failed pushes (status 1) and the exit choice at
\* the missing hosting-CLI prompt of ensureConnectedToGitHub (status 0);
\* declining the overwrite ends the run by main returning, without
\* process.exit.
C14_TerminationSites ==
  /\ exitStatus # "none" =>
       \/ /\ pc = "pf_confirm"
          /\ exitStatus = "1"
          /\ confirmContinue = "false"
       \/ /\ pc = "ec_ghPrompt"
          /\ exitStatus = "0"
          /\ ghReported = "false"
          /\ confirmContinue = "unasked"
  /\ outcome = "aborted" => (pc = "end" /\ exitStatus = "none")

C14_Witness ==
  /\ pc = "ec_ghPrompt"
  /\ exitStatus = "0"

\* ------------------------------------------------------------------ C15
\* C15: ensurePackageManagerInstalled for npm that is not installed returns
\* to main without throwing, so the run does not end at that step.
C15_NpmMissingReturns ==
  ~(selectedPackageManager = "npm" /\ outcome = "failed" /\ failedAt = "ensurePM")

\* ------------------------------------------------------------------ C16
\* C16: a failing install of the extra packages does not end the run: the
\* run goes on to the guidance and the run-locally prompt.
C16_ExtrasFailureTolerated ==
  ~(ran["add"] > 0 /\ outcome = "failed" /\ failedAt = "extrasPrompt")

\* ------------------------------------------------------------------ C17
\* the orchestrator parked before its first prompt, for the specifications
\* that exercise one function on its own
MainParked ==
  /\ MainIdle
  /\ ~destExists

\* parsed manifests: every selection of keys of a full package.json
FullManifest == Put(TemplateManifest, "author", "Tpl Author")
Restrict(m, ks) == [k \in ks |-> m[k]]
ParsedManifests == {Restrict(FullManifest, ks) : ks \in SUBSET DOMAIN FullManifest}
\* the answer to the name prompt (possibly empty) and getGitAuthorName()
NewNames == {"", "my-app"}
ResolvedAuthors == {"Jane", "your name"}

InitManifest ==
  /\ MainParked
  /\ copyRun = Idle /\ delRun = Idle /\ cmdRun = Idle
  /\ \E m \in ParsedManifests, n \in NewNames, a \in ResolvedAuthors :
       persRun = [step |-> "parsed", manifest |-> m, newName |-> n, author |-> a,
                  out |-> NoManifest]

\* lines 141-152 of main applied to the parsed manifest
Pers_Write ==
  /\ persRun.step = "parsed"
  /\ persRun' = [persRun EXCEPT
                   !.step = "written",
                   !.out = Personalize(persRun.manifest, persRun.newName, persRun.author)]
  /\ UNCHANGED <<pc, outcome, failedAt, exitStatus, inputVars, vcsVars, fileVars,
                 linkVars, loops, created, ran, installCwd, chainLog, pushLog, copyRun, delRun, cmdRun>>

NextManifest == Pers_Write
SpecManifest == InitManifest /\ [][NextManifest]_vars

\* C17: the written manifest has the requested name when it is non-empty
\* and the original name (or none) otherwise, version "0.0.1", the resolved
\* author, none of bin, files, main, repository, homepage, bugs, and every
\* other original key with its original value.
C17_ManifestPersonalized ==
  persRun.step = "written" =>
    LET m == persRun.manifest
        out == persRun.out
        removed == {"bin", "files", "main", "repository", "homepage", "bugs"}
        rewritten == {"name", "version", "author"}
    IN  /\ persRun.newName # "" =>
             ("name" \in DOMAIN out /\ out["name"] = persRun.newName)
        /\ persRun.newName = "" =>
             /\ "name" \in DOMAIN out <=> "name" \in DOMAIN m
             /\ "name" \in DOMAIN m => out["name"] = m["name"]
        /\ "version" \in DOMAIN out /\ out["version"] = "0.0.1"
        /\ "author" \in DOMAIN out /\ out["author"] = persRun.author
        /\ DOMAIN out \cap removed = {}
        /\ \A k \in (DOMAIN m) \ (removed \cup rewritten) :
             k \in DOMAIN out /\ out[k] = m[k]
        /\ DOMAIN out \subseteq (DOMAIN m \cup rewritten) \ removed

C17_Witness ==
  /\ persRun.step = "written"
  /\ persRun.newName = ""
  /\ DOMAIN persRun.manifest = DOMAIN FullManifest
  /\ persRun.out["name"] = "tpl"
  /\ persRun.out["scripts"] = "s"

\* ------------------------------------------- utils/fileUtils.js on trees
\* A tree is a function from the paths present under a root (sequences of
\* entry names, <<>> being the root itself) to "dir" or to a file's content.
MaxSrcEntries == 2
MaxDestEntries == 1

\* entry names: in neither exclusion list, in dirExclusions only, in
\* fileExclusions only, in both
Names == {"a", "bin", ".DS_Store", ".git"}
\* basename of the src argument
SrcNames == {"starter", "bin"}

NoTree == [p \in {} |-> "none"]
Kind(T, p) == IF p \in DOMAIN T THEN T[p] ELSE "none"
IsFile(k) == k \notin {"none", "dir"}
Parent(p) == SubSeq(p, 1, Len(p) - 1)
Children(T, p) == {q \in DOMAIN T : Len(q) = Len(p) + 1 /\ Parent(q) = p}
Under(T, p) == {q \in DOMAIN T : Len(q) >= Len(p) /\ SubSeq(q, 1, Len(p)) = p}

\* the trees obtained from T by adding one entry to one of its directories
Grow(T, content) ==
  {Put(T, e, k) :
     e \in {Append(d, n) : d \in {q \in DOMAIN T : T[q] = "dir"}, n \in Names} \ DOMAIN T,
     k \in {"dir", content}}

RECURSIVE TreesUpTo(_, _)
\* the directories with at most n entries below the root
TreesUpTo(n, content) ==
  IF n = 0 THEN {[p \in {<<>>} |-> "dir"]}
  ELSE LET prev == TreesUpTo(n - 1, content)
       IN  prev \cup UNION {Grow(T, content) : T \in prev}

\* what a path argument can name: nothing, a file, a directory
PathStates(n, content) ==
  {NoTree, [p \in {<<>>} |-> content]} \cup TreesUpTo(n, content)

\* path.basename of the entry at p under a root whose basename is rootName
Basename(rootName, p) == IF p = <<>> THEN rootName ELSE p[Len(p)]

\* variant: the file exclusion list is not consulted
isExcludedEntry_dirsOnly(isDirectory, base) ==
  isDirectory /\ base \in dirExclusions

\* the exclusion test of copyRecursive
isExcludedEntry(isDirectory, base) ==
  IF isDirectory THEN base \in dirExclusions ELSE base \in fileExclusions

\* variant: an existing file at the destination is kept
copyFile_keep(D, p, content) ==
  IF p \in DOMAIN D THEN D ELSE Put(D, p, content)

\* fs.copyFile onto an absent path or an existing file
copyFile(D, p, content) == Put(D, p, content)

\* the writing and listing operations of copyRecursive that can be made to
\* reject at an entry of that kind (fs.stat rejects for an absent src)
FsOps(k) == IF k = "dir" THEN {"mkdir", "readdir"} ELSE {"copyFile"}
Rejects(c, p, op) == [path |-> p, op |-> op] \in c.failing

\* the call for an entry returns without an error
Returned(D) == [fs |-> D, errs |-> {}, threw |-> FALSE]

\* variant: the catch block logs the error and throws it again
Logged_rethrow(D, p) == [fs |-> D, errs |-> {p}, threw |-> TRUE]

\* the catch block: the error is logged, the destination is left as it is,
\* the call returns
Logged(D, p) == [fs |-> D, errs |-> {p}, threw |-> FALSE]

RECURSIVE copyRecursive(_, _, _)
RECURSIVE copyChildren(_, _, _)

\* copyRecursive(path.join(src, p), path.join(dest, p)) for the call
\* c = [tree, name, failing] (the source tree, the basename of src, the
\* operations that reject), on the destination tree D; the result is the
\* destination tree afterwards, the entries whose error was logged, and
\* whether the call threw
copyRecursive(c, D, p) ==
  LET k == Kind(c.tree, p)
  IN  IF k = "none" THEN Logged(D, p)
      ELSE IF isExcludedEntry(k = "dir", Basename(c.name, p)) THEN Returned(D)
      ELSE IF k = "dir"
        THEN IF Rejects(c, p, "mkdir") \/ IsFile(Kind(D, p)) THEN Logged(D, p)
             ELSE LET made == Put(D, p, "dir")
                  IN  IF Rejects(c, p, "readdir") THEN Logged(made, p)
                      ELSE LET r == copyChildren(c, made, Children(c.tree, p))
                               caught == Logged(r.fs, p)
                           IN  IF r.threw
                                 THEN [caught EXCEPT !.errs = r.errs \cup {p}]
                                 ELSE r
        ELSE IF Rejects(c, p, "copyFile") \/ Kind(D, p) = "dir" THEN Logged(D, p)
             ELSE Returned(copyFile(D, p, k))

\* the for loop over the children (they name disjoint destinations, so the
\* order of the loop does not show in the result unless a call throws,
\* which ends the loop)
copyChildren(c, D, children) ==
  IF children = {} THEN Returned(D)
  ELSE LET q == CHOOSE x \in children : TRUE
           one == copyRecursive(c, D, q)
           rest == copyChildren(c, one.fs, children \ {q})
       IN  IF one.threw THEN one
           ELSE [rest EXCEPT !.errs = one.errs \cup rest.errs]

\* at most one operation rejects during one call
Failings(S) ==
  {{}} \cup {{[path |-> p, op |-> o]} : p \in DOMAIN S, o \in {"mkdir", "readdir", "copyFile"}}

InitCopy ==
  /\ MainParked
  /\ persRun = Idle /\ delRun = Idle /\ cmdRun = Idle
  /\ \E S \in PathStates(MaxSrcEntries, "x"), n \in SrcNames,
        D \in PathStates(MaxDestEntries, "y") :
       copyRun = [step |-> "given", src |-> S, name |-> n, before |-> D,
                  fs |-> D, errs |-> {}, afterFirst |-> D, firstErrs |-> {},
                  threw |-> FALSE]

\* copyRecursive(src, dest) is called and has returned
Copy_First ==
  /\ copyRun.step = "given"
  /\ \E F \in Failings(copyRun.src) :
       /\ \A f \in F : f.op \in FsOps(copyRun.src[f.path])
       /\ LET r == copyRecursive([tree |-> copyRun.src, name |-> copyRun.name,
                                   failing |-> F], copyRun.fs, <<>>)
          IN  copyRun' = [copyRun EXCEPT !.step = "once", !.fs = r.fs, !.errs = r.errs,
                                         !.afterFirst = r.fs, !.firstErrs = r.errs,
                                         !.threw = r.threw]
  /\ UNCHANGED <<pc, outcome, failedAt, exitStatus, inputVars, vcsVars, fileVars,
                 linkVars, loops, created, ran, installCwd, chainLog, pushLog, persRun, delRun, cmdRun>>

\* copyRecursive(src, dest) is called again with the same arguments, on a
\* filesystem none of whose operations is made to reject
Copy_Second ==
  /\ copyRun.step = "once"
  /\ LET r == copyRecursive([tree |-> copyRun.src, name |-> copyRun.name,
                              failing |-> {}], copyRun.fs, <<>>)
     IN  copyRun' = [copyRun EXCEPT !.step = "twice", !.fs = r.fs, !.errs = r.errs,
                                    !.threw = copyRun.threw \/ r.threw]
  /\ UNCHANGED <<pc, outcome, failedAt, exitStatus, inputVars, vcsVars, fileVars,
                 linkVars, loops, created, ran, installCwd, chainLog, pushLog, persRun, delRun, cmdRun>>

NextCopy == Copy_First \/ Copy_Second
SpecCopy == InitCopy /\ [][NextCopy]_vars

\* ------------------------------------------------------------------ C18
\* an entry of that kind and basename is one the exclusion lists name
isExcludedBasename(isDirectory, base) ==
  \/ isDirectory /\ base \in dirExclusions
  \/ ~isDirectory /\ base \in fileExclusions

\* entries below the root of a tree
Entries(T) == DOMAIN T \ {<<>>}

\* C18 (as stated): after copyRecursive(src, dest) no entry under dest has
\* a basename that is in one of the two exclusion lists.
C18_NoExcludedBasename ==
  copyRun.step = "once" =>
    \A p \in Entries(copyRun.fs) :
      p[Len(p)] \notin dirExclusions \cup fileExclusions

\* C18 (amended): after copyRecursive(src, dest) a directory under dest
\* whose basename is in the directory exclusion list, a file under dest
\* whose basename is in the file exclusion list, and everything below such a
\* directory, was there before the call and is as it was.
C18_NoExcludedEntryCreated ==
  copyRun.step = "once" =>
    \A p \in Entries(copyRun.fs) :
      LET k == copyRun.fs[p]
      IN  isExcludedBasename(k = "dir", p[Len(p)]) =>
            \A q \in Under(copyRun.fs, p) :
              Kind(copyRun.before, q) = copyRun.fs[q]

C18_Witness ==
  /\ copyRun.step = "once"
  /\ copyRun.errs = {}
  /\ copyRun.name = "starter"
  /\ Kind(copyRun.src, <<"a">>) = "dir"
  /\ Kind(copyRun.src, <<"a", ".DS_Store">>) = "x"
  /\ Kind(copyRun.fs, <<"a">>) = "dir"
  /\ Kind(copyRun.fs, <<"a", ".DS_Store">>) = "none"

\* ------------------------------------------------------------------ C19
\* the proper prefixes of p: the directories on the way to the entry at p
Ancestors(p) == {SubSeq(p, 1, n) : n \in 0..(Len(p) - 1)}

\* the files of the source that no exclusion list keeps from being copied
NonExcludedFiles(S, rootName) ==
  {p \in DOMAIN S :
     /\ IsFile(S[p])
     /\ Basename(rootName, p) \notin fileExclusions
     /\ \A d \in Ancestors(p) : Basename(rootName, d) \notin dirExclusions}

\* C19: when no error occurred in the first run, every non-excluded file
\* of src has an identical copy under dest after it; when no error occurred
\* in the second run either, dest is after the second run what it was after
\* the first.
C19_Idempotent ==
  /\ (copyRun.step \in {"once", "twice"} /\ copyRun.firstErrs = {}) =>
       \A p \in NonExcludedFiles(copyRun.src, copyRun.name) :
         Kind(copyRun.afterFirst, p) = copyRun.src[p]
  /\ (copyRun.step = "twice" /\ copyRun.firstErrs = {} /\ copyRun.errs = {}) =>
       copyRun.fs = copyRun.afterFirst

C19_Witness ==
  /\ copyRun.step = "twice"
  /\ copyRun.firstErrs = {} /\ copyRun.errs = {}
  /\ copyRun.name = "starter"
  /\ Kind(copyRun.before, <<"a">>) = "dir"
  /\ Kind(copyRun.src, <<"a", "bin">>) = "x"
  /\ Kind(copyRun.fs, <<"a", "bin">>) = "x"

\* ------------------------------------------------------------------ C20
MaxDelEntries == 3

\* variant: the existence test always answers true
exists_always(T, p) == TRUE

\* exists(path): fs.access resolves
exists(T, p) == Kind(T, p) # "none"

\* fs.unlink of a file
unlink(T, p) == Del(T, {p})
\* fs.rm(path, {recursive: true, force: true})
rm(T, p) == Del(T, Under(T, p))

RECURSIVE deleteDirectoryRecursive(_, _)
RECURSIVE deleteChildren(_, _)

\* deleteDirectoryRecursive(directoryPath) on the filesystem T; the result
\* is the filesystem afterwards and whether the returned promise rejected
\* (fs.readdir rejects for a path that is not a directory)
deleteDirectoryRecursive(T, p) ==
  IF ~exists(T, p) THEN [fs |-> T, threw |-> FALSE]
  ELSE IF Kind(T, p) # "dir" THEN [fs |-> T, threw |-> TRUE]
  ELSE LET r == deleteChildren(T, Children(T, p))
       IN  IF r.threw THEN r ELSE [fs |-> rm(r.fs, p), threw |-> FALSE]

\* the for loop over the entries of the directory
deleteChildren(T, children) ==
  IF children = {} THEN [fs |-> T, threw |-> FALSE]
  ELSE LET q == CHOOSE x \in children : TRUE
           one == IF T[q] = "dir" THEN deleteDirectoryRecursive(T, q)
                  ELSE [fs |-> unlink(T, q), threw |-> FALSE]
       IN  IF one.threw THEN one ELSE deleteChildren(one.fs, children \ {q})

\* the path argument: an entry of the filesystem or a path that is absent
DeletePaths(T) == Entries(T) \cup {<<n>> : n \in Names} \cup {<<"a", "a">>}

InitDelete ==
  /\ MainParked
  /\ persRun = Idle /\ copyRun = Idle /\ cmdRun = Idle
  /\ \E T \in TreesUpTo(MaxDelEntries, "x") : \E p \in DeletePaths(T) :
       delRun = [step |-> "given", path |-> p, before |-> T, fs |-> T, threw |-> FALSE]

\* deleteDirectoryRecursive(path) is called and its promise has settled
Delete_Call ==
  /\ delRun.step = "given"
  /\ LET r == deleteDirectoryRecursive(delRun.fs, delRun.path)
     IN  delRun' = [delRun EXCEPT !.step = "deleted", !.fs = r.fs, !.threw = r.threw]
  /\ UNCHANGED <<pc, outcome, failedAt, exitStatus, inputVars, vcsVars, fileVars,
                 linkVars, loops, created, ran, installCwd, chainLog, pushLog, persRun, copyRun, cmdRun>>

NextDelete == Delete_Call
SpecDelete == InitDelete /\ [][NextDelete]_vars

\* C20: on an absent path the call changes nothing and raises no error; on
\* an existing directory it raises no error, removes the directory and
\* every descendant, and leaves every other entry as it was.
C20_DeleteRecursive ==
  delRun.step = "deleted" =>
    LET T == delRun.before
        p == delRun.path
        gone == {q \in DOMAIN T : Len(q) >= Len(p) /\ SubSeq(q, 1, Len(p)) = p}
    IN  /\ Kind(T, p) = "none" => (delRun.fs = T /\ ~delRun.threw)
        /\ Kind(T, p) = "dir" =>
             /\ ~delRun.threw
             /\ DOMAIN delRun.fs = DOMAIN T \ gone
             /\ \A q \in DOMAIN delRun.fs : delRun.fs[q] = T[q]

C20_Witness ==
  /\ delRun.step = "deleted"
  /\ delRun.path = <<"a">>
  /\ Kind(delRun.before, <<"a", "bin">>) = "dir"
  /\ Kind(delRun.before, <<"a", "bin", "a">>) = "x"
  /\ ~delRun.threw
  /\ DOMAIN delRun.fs = {<<>>}

\* ------------------------------------------------------------------ C21
\* VcsLinkState of the destination, as a rank: NotARepo 0, LocalOnly 1,
\* RemoteLinked 2 (a remote pointing at the expected host)
LinkRank ==
  IF origin.host = "github.com" THEN 2
  ELSE IF destRepo THEN 1
  ELSE 0

\* C21: no step lowers the link state of the destination, removes its
\* local repository metadata or removes or replaces a configured remote.
C21_LinkStateMonotonic ==
  [][/\ LinkRank' >= LinkRank
     /\ destRepo => destRepo'
     /\ origin # NoOrigin => origin' = origin]_vars

C21_Witness ==
  /\ ran["gitInit"] = 1
  /\ ran["remoteAdd"] = 1
  /\ destRepo
  /\ LinkRank = 2
  /\ ran["push"] = 2
  /\ pc = "pf_confirm"

\* ------------------------------------------------------------------ C22
\* the eight documented actions, and the property names a caller may ask for
DocumentedActions == {"install", "add", "build", "dev", "list", "globalAdd",
                      "globalList", "remove"}
AskedActions == DocumentedActions \cup {"run", "publish"}

\* the value of a property the object does not have
Undefined == "undefined"

\* variant: the global listing command is not found
commandFor_noGlobalList(managerId, action) ==
  LET commands == packageManagerCommands[managerId]
  IN  IF action \in DOMAIN commands \ {"globalList"} THEN commands[action] ELSE Undefined

\* packageManagerCommands[managerId][action]
commandFor(managerId, action) ==
  LET commands == packageManagerCommands[managerId]
  IN  IF action \in DOMAIN commands THEN commands[action] ELSE Undefined

NoLookups == [a \in {} |-> ""]

InitRegistry ==
  /\ MainParked
  /\ persRun = Idle /\ copyRun = Idle /\ delRun = Idle
  /\ \E m \in PackageManagers : cmdRun = [step |-> "lookup", manager |-> m, found |-> NoLookups]

\* one more action is looked up for the manager
Registry_Lookup ==
  /\ cmdRun.step = "lookup"
  /\ \E a \in AskedActions \ DOMAIN cmdRun.found :
       cmdRun' = [cmdRun EXCEPT !.found = Put(@, a, commandFor(cmdRun.manager, a))]
  /\ UNCHANGED <<pc, outcome, failedAt, exitStatus, inputVars, vcsVars, fileVars,
                 linkVars, loops, created, ran, installCwd, chainLog, pushLog, persRun, copyRun, delRun>>

NextRegistry == Registry_Lookup
SpecRegistry == InitRegistry /\ [][NextRegistry]_vars

\* C22: for each of npm, pnpm, yarn and bun, every lookup of one of the
\* eight documented actions yields a command that is defined and non-empty.
C22_RegistryComplete ==
  cmdRun.step = "lookup" =>
    /\ cmdRun.manager \in {"npm", "pnpm", "yarn", "bun"}
    /\ \A a \in DOMAIN cmdRun.found \cap DocumentedActions :
         cmdRun.found[a] \notin {"", Undefined}

C22_Witness ==
  /\ cmdRun.step = "lookup"
  /\ cmdRun.manager = "bun"
  /\ DOMAIN cmdRun.found = AskedActions
  /\ cmdRun.found["globalList"] = "bun list --global"
  /\ cmdRun.found["publish"] = Undefined

\* ------------------------------------------------------------------ C23
\* C23: when getGitHubUsername resolved to null, no remote-add command is
\* run and no origin is built from the null identity.
C23_NullIdentitySkipsRemoteAdd ==
  username = "null" => (ran["remoteAdd"] = 0 /\ origin.user # "null")

\* ------------------------------------------------------------------ C24
\* C24: the fallback after the failed first push makes exactly one creation
\* attempt, never shows the rename prompt, and the second push comes after
\* that attempt.
C24_FallbackSingleCall ==
  /\ loops["pf"].calls <= 1
  /\ loops["pf"].state # "prompt"
  /\ ran["push"] >= 2 => loops["pf"].calls = 1

\* ------------------------------------------------------------------ C25
\* loop t makes a creation call in this step, and the call succeeds
CallMade(t) == loops'[t].calls = loops[t].calls + 1
CallSucceeds(t) == CallMade(t) /\ loops'[t].name \in created' \ created

\* the rename prompt of loop t is showing and can still be answered
AwaitingAnswer(t) ==
  /\ Alive /\ Suspended
  /\ loops[t].state = "prompt"
  /\ loops[t].answers < MaxRetries

ChainPcs == {"n_branch", "n_build", "n_deploy"}
ChainOrder == <<"install", "build", "deploy">>

\* the chain is over: a command failed or the last one has run
ChainOver ==
  /\ chainLog # <<>>
  /\ ~chainLog[Len(chainLog)].ok \/ Len(chainLog) = Len(ChainOrder)

\* C26: the chain runs only in the not-linked branch, its commands are
\* install, build, deploy in that order, each with the destination as cwd;
\* no command runs after one that failed; a failure is caught inside the
\* driver, which goes on to its next step instead of throwing to main.
C26_ManualChain ==
  /\ chainLog # <<>> => isGitHubConnected = "false"
  /\ Len(chainLog) <= Len(ChainOrder)
  /\ \A i \in DOMAIN chainLog :
       /\ chainLog[i].cmd = ChainOrder[i]
       /\ chainLog[i].cwd = destination
       /\ i < Len(chainLog) => chainLog[i].ok
  /\ Len(chainLog) = ran["driverInstall"] + ran["driverBuild"] + ran["driverDeploy"]
  /\ failedAt \notin ChainPcs
  /\ ChainOver => pc \notin ChainPcs

C26_Witness ==
  /\ Len(chainLog) = 2
  /\ ~chainLog[2].ok
  /\ destination = "proj"
  /\ ran["driverDeploy"] = 0
  /\ pc = "end" /\ outcome = "completed"

\* ------------------------------------------------------------------ C27
\* the destination exists and holds an entry other than .git
NonEmptyDest == destExists /\ destEntries \ {".git"} # {}
\* positions of main up to the overwrite prompt
UpToPromptPcs == {"prompt", "ensurePM", "destCheck", "overwritePrompt"}
\* commands of the steps that come after the overwrite prompt
LaterCommands == Commands \ {"pmInstall"}

\* C27: the step after the destination check is the overwrite prompt
\* exactly when the destination exists and holds an entry other than .git;
\* a lockfile or node_modules is deleted only by the step that follows the
\* confirmation; up to the prompt and when the user declines, nothing of
\* the destination is created, modified or deleted, and after a decline no
\* later step runs.
C27_OverwritePrompt ==
  /\ [][(pc = "destCheck" /\ pc' # pc) =>
          (pc' = "overwritePrompt" <=> NonEmptyDest)]_vars
  /\ [][(destEntries \ destEntries') \cap (LockFiles \cup {"node_modules"}) # {} =>
          (pc = "overwritePrompt" /\ pc' = "copy")]_vars
  /\ [][(pc' \in UpToPromptPcs \/ outcome' = "aborted") =>
          UNCHANGED <<fileVars, vcsVars>>]_vars
  /\ [][outcome = "aborted" =>
          UNCHANGED <<pc, outcome, failedAt, exitStatus, fileVars, vcsVars, linkVars,
                      loops, created, ran, installCwd, chainLog>>]_vars
  /\ [](outcome = "aborted" =>
          /\ pc = "end"
          /\ NonEmptyDest
          /\ manifest = NoManifest
          /\ \A c \in LaterCommands : ran[c] = 0)

C27_Witness ==
  /\ outcome = "aborted"
  /\ {"package-lock.json", "node_modules", "index.html"} \subseteq destEntries

\* ------------------------------------------------------------------ C28
\* the other entries of the directory that holds the entry at p
Siblings(T, p) == IF p = <<>> THEN {} ELSE Children(T, Parent(p)) \ {p}

\* the entry at q of the source is present under dest as the source has it
CopiedAt(S, D, q) == Kind(D, q) = S[q]

\* C28: copyRecursive returns without throwing; an error is logged at the
\* entry where it occurred and not at the directory that holds the entry;
\* every sibling of a failed entry that is not excluded and did not fail
\* itself has been copied.
C28_BestEffort ==
  copyRun.step \in {"once", "twice"} =>
    /\ ~copyRun.threw
    /\ \A p \in copyRun.firstErrs :
         /\ p # <<>> => Parent(p) \notin copyRun.firstErrs
         /\ \A q \in Siblings(copyRun.src, p) :
              (/\ q \notin copyRun.firstErrs
               /\ ~isExcludedBasename(copyRun.src[q] = "dir", q[Len(q)]))
                => CopiedAt(copyRun.src, copyRun.afterFirst, q)

C28_Witness ==
  /\ copyRun.step = "once"
  /\ copyRun.before = NoTree
  /\ copyRun.firstErrs = {<<"a">>}
  /\ Kind(copyRun.src, <<"a">>) = "x"
  /\ Kind(copyRun.fs, <<"a">>) = "none"
  /\ Kind(copyRun.src, <<"bin">>) = "x"
  /\ Kind(copyRun.fs, <<"bin">>) = "x"

\* ------------------------------------------------------------------ C29
\* C29: the result is true only if the last push of the call exited zero;
\* it is not true when both pushes failed or when the hosting CLI was
\* reported missing; pushToGitHub pushes at most twice.
C29_TrueOnlyAfterPush ==
  /\ Len(pushLog) = ran["push"]
  /\ Len(pushLog) <= 2
  /\ isGitHubConnected = "true" =>
       (pushLog # <<>> /\ pushLog[Len(pushLog)])
  /\ (\A i \in DOMAIN pushLog : ~pushLog[i]) => isGitHubConnected # "true"
  /\ ghReported = "false" => (isGitHubConnected # "true" /\ pushLog = <<>>)

C29_Witness ==
  /\ isGitHubConnected = "true"
  /\ pushLog = <<FALSE, TRUE>>
  /\ pc = "n_branch"

\* ------------------------------------------------------------------ C30
\* the remotes a destination can have before the run
InitialOrigins == {d.origin : d \in InitialDest}

\* C30: when the hosting CLI was reported missing, ensureConnectedToGitHub
\* has at most run git init: nothing was staged or committed, no identity
\* was resolved, no remote was added, no repository creation and no push
\* was attempted, and with the continue choice the result is not-linked.
C30_MissingCliLeavesOnlyInit ==
  ghReported = "false" =>
    /\ ~staged /\ ~committed
    /\ \A c \in {"stage", "commit", "remoteAdd", "push"} : ran[c] = 0
    /\ ran["gitInit"] <= 1
    /\ CreationCalls = 0 /\ created = {}
    /\ username = "unset"
    /\ origin \in InitialOrigins /\ origin.host # "github.com"
    /\ pushLog = <<>>
    /\ isGitHubConnected \in {"unset", "false"}
    /\ (pc \notin ECPcs /\ Alive) => isGitHubConnected = "false"

C30_Witness ==
  /\ ghReported = "false"
  /\ isGitHubConnected = "false"
  /\ ran["gitInit"] = 1
  /\ ".git" \in destEntries
  /\ pc = "n_branch"

\* ------------------------------------------------------------------ C31
\* C31: once the user chose to continue after both pushes failed, the
\* result is not-linked while the commit and the origin remote of that call
\* stay in place (an added remote points at github.com), and the driver
\* runs the manual chain, never netlify init.
C31_NoRollback ==
  confirmContinue = "true" =>
    /\ isGitHubConnected = "false"
    /\ pushLog = <<FALSE, FALSE>>
    /\ staged /\ committed /\ ran["commit"] = 1
    /\ origin # NoOrigin
    /\ ran["remoteAdd"] = 1 => (origin = RemoteUrl /\ origin.host = "github.com")
    /\ publishProject = "Netlify"
    /\ ran["setup"] = 0
    /\ pc # "n_branch" =>
         /\ ran["driverInstall"] = 1
         /\ chainLog # <<>>
         /\ chainLog[1].cmd = "install"

C31_Witness ==
  /\ confirmContinue = "true"
  /\ isGitHubConnected = "false"
  /\ ran["remoteAdd"] = 1
  /\ origin.host = "github.com"
  /\ committed
  /\ Len(chainLog) = 3
====
